---- MODULE Spec2Model ----
(***************************************************************************)
(* Model of the echo runtime agent (src/runtime-agent.ts).                 *)
(*                                                                         *)
(* Every session is one process running the agent.  A session is a         *)
(* single-threaded event loop: each action below is one macrotask that     *)
(* runs to completion (top-level startup, a subscription callback, a       *)
(* setTimeout task, the interval tick, the shutdown listener, the          *)
(* continuation of shutdown after its await).  The store is the external   *)
(* collaborator: commits may throw, materialised views are pushed to the   *)
(* subscribers some time after they change.                                *)
(***************************************************************************)
EXTENDS Integers, Sequences, FiniteSets, TLC

(* ---------------------------- bounds ----------------------------------- *)
\* number of interval ticks the model lets each run take
MaxHeartbeats == 2
\* number of store.commit calls that may throw for a reason other than a conflict
MaxFailures == 2
\* number of times the shutdown listener may be invoked per session
MaxTriggers == 2

(* ---------------------------- universe --------------------------------- *)
Sessions == {"s1", "s2"}
Items == {"w1", "w2"}
Cells == {"c1", "c2"}
NoSession == "null"
NoItem == "none"
NoCell == "none"
NotDelivered == <<"not-delivered">>
TriggerSources == {"SIGINT", "SIGTERM", "unhandledrejection", "error"}

\* executionQueue rows: id, cellId, priority
CellOf == [w1 |-> "c1", w2 |-> "c2"]
Priority == [w1 |-> 5, w2 |-> 3]

\* the rows the cells table may hold for a cell (NoRow: the cell does not exist)
NoRow == [exists |-> FALSE, cellType |-> "code", source |-> ""]
CodeRow(src) == [exists |-> TRUE, cellType |-> "code", source |-> src]
AiRow(src) == [exists |-> TRUE, cellType |-> "ai", source |-> src]
NullSource == "null"
CodeAndMissing == [c1 |-> CodeRow("print(1)"), c2 |-> NoRow]
MissingAndAi == [c1 |-> NoRow, c2 |-> AiRow(NullSource)]
AiAndCode == [c1 |-> AiRow("print(1)"), c2 |-> CodeRow(NullSource)]
CellTables == {CodeAndMissing, MissingAndAi, AiAndCode}

VARIABLES
    \* ---- the store (shared, external) ----
    backlog,        \* items the external producer has yet to publish
    cells,          \* the cells table
    status,         \* executionQueue.status per item: "none", "pending", "assigned", "done"
    assignee,       \* executionQueue.assignedKernelSession per item
    active,         \* kernelSessions rows with isActive = true
    failures,       \* commits that have thrown so far
    \* ---- per session ----
    pc,             \* "absent", "starting", "running", "closing", "exited", "crashed"
    exitCode,       \* process exit status, -1 while the process lives
    isShuttingDown, \* the flag of line 159
    processedExecutions, \* the set of line 162
    heartbeatInterval,   \* TRUE while the interval timer is installed
    subs,           \* which of the three unsubscribe handles are non-null
    timers,         \* FIFO queue of setTimeout(.., 0) tasks
    lastPending, lastAssigned, lastActive, \* last result pushed to each onUpdate
    commits,        \* events this session has committed, in order
    claimAttempts,  \* number of executionAssigned commits attempted
    claimTried,     \* items for which an executionAssigned commit was attempted
    started,        \* number of processExecution calls per item
    outcome,        \* per item: "idle", "running" (processExecution suspended at its
                    \* setTimeout), "ok" (try block ran through), "caught" (catch
                    \* block committed the failure), "lost" (that commit threw too)
    teardown,       \* the steps shutdown has performed, in order
    triggers,       \* number of invocations of the shutdown listener
    ticks           \* number of interval ticks taken

storeVars == <<backlog, cells, status, assignee, active, failures>>
sessVars == <<pc, exitCode, isShuttingDown, processedExecutions, heartbeatInterval,
              subs, timers, lastPending, lastAssigned, lastActive, commits,
              claimAttempts, claimTried, started, outcome, teardown, triggers, ticks>>
vars == <<backlog, cells, status, assignee, active, failures,
          pc, exitCode, isShuttingDown, processedExecutions, heartbeatInterval,
          subs, timers, lastPending, lastAssigned, lastActive, commits,
          claimAttempts, claimTried, started, outcome, teardown, triggers, ticks>>

(* ---------------------------- events ----------------------------------- *)
\* payload is always a tuple of strings (the text/plain data, or the error message)
Ev(t, w, c, st, pos, pl) ==
    [type |-> t, item |-> w, cell |-> c, status |-> st, position |-> pos, payload |-> pl]

kernelSessionStarted == Ev("kernelSessionStarted", NoItem, NoCell, "", 0, <<>>)
kernelSessionHeartbeat == Ev("kernelSessionHeartbeat", NoItem, NoCell, "ready", 0, <<>>)
kernelSessionTerminated == Ev("kernelSessionTerminated", NoItem, NoCell, "shutdown", 0, <<>>)
executionAssigned(w) == Ev("executionAssigned", w, NoCell, "", 0, <<>>)
executionStarted(w) == Ev("executionStarted", w, CellOf[w], "", 0, <<>>)
cellOutputsCleared(c) == Ev("cellOutputsCleared", NoItem, c, "", 0, <<>>)
cellOutputAdded(c, pos, pl) == Ev("cellOutputAdded", NoItem, c, "execute_result", pos, pl)
executionCompleted(w, st, err) == Ev("executionCompleted", w, CellOf[w], st, 0, err)

(* ---------------------------- views ------------------------------------ *)
RECURSIVE ByPriority(_)
\* orderBy("priority", "desc") over a set of queue rows
ByPriority(S) ==
    IF S = {} THEN <<>>
    ELSE LET top == CHOOSE w \in S : \A v \in S : Priority[w] >= Priority[v]
         IN <<top>> \o ByPriority(S \ {top})

pendingWorkQuery == ByPriority({w \in Items : status[w] = "pending"})

activeKernelsQuery == active

\* the assigned view without the assignedKernelSession filter of line 304
assignedWorkQuery_AnySession(s) ==
    ByPriority({w \in Items : status[w] = "assigned"})

assignedWorkQuery(s) ==
    ByPriority({w \in Items : status[w] = "assigned" /\ assignee[w] = s})

(* ---------------------------- the store -------------------------------- *)
\* store.commit may throw: CanFail is the budget of such throws
CanFail(n) == failures + n <= MaxFailures

\* the log accepts an assignment only for a row that is still pending
AssignAccepted(w) == status[w] = "pending"

\* the effect of committed executionCompleted events on the queue rows
Completes(evs) ==
    {evs[i].item : i \in {j \in DOMAIN evs : evs[j].type = "executionCompleted"}}

(* ---------------------------- processExecution ------------------------- *)
Src(cell) == IF cell.source = NullSource THEN "" ELSE cell.source

\* the outputData of lines 204-228
OutputData(cell) ==
    IF cell.cellType = "ai"
    THEN <<"Beep boop. You said ", Src(cell)>>
    ELSE <<Src(cell)>>

NotFound(c) == <<"Cell ", c, " not found">>
CommitThrew == <<"commit rejected">>

\* the try block with the outputs cleared after the output is added
TrySteps_ClearLast(w) ==
    LET cell == cells[CellOf[w]]
    IN << executionStarted(w),
          cellOutputAdded(CellOf[w], 0, OutputData(cell)),
          cellOutputsCleared(CellOf[w]),
          executionCompleted(w, "success", <<>>) >>

\* the commits of the try block, in order (lines 190-251)
TrySteps(w) ==
    LET cell == cells[CellOf[w]]
    IN << executionStarted(w),
          cellOutputsCleared(CellOf[w]),
          cellOutputAdded(CellOf[w], 0, OutputData(cell)),
          executionCompleted(w, "success", <<>>) >>

\* a lookup that takes a missing row for an empty cell
TryBlock_NoLookup(w, failAt) ==
    IF failAt = 0
    THEN [evs |-> TrySteps(w), threw |-> ~cells[CellOf[w]].exists, error |-> NotFound(CellOf[w])]
    ELSE [evs |-> SubSeq(TrySteps(w), 1, failAt - 1), threw |-> TRUE,
          error |-> CommitThrew]

\* a try block in which a throwing commit is skipped and the later ones still run
TryBlock_NoAbort(w, failAt) ==
    IF ~cells[CellOf[w]].exists
    THEN [evs |-> <<>>, threw |-> TRUE, error |-> NotFound(CellOf[w])]
    ELSE IF failAt = 0
    THEN [evs |-> TrySteps(w), threw |-> FALSE, error |-> <<>>]
    ELSE [evs |-> SubSeq(TrySteps(w), 1, failAt - 1)
                  \o SubSeq(TrySteps(w), failAt + 1, Len(TrySteps(w)) - 1),
          threw |-> TRUE, error |-> CommitThrew]

\* the try block: failAt = 0 when no commit throws, else the index of the
\* commit that throws.  Result: the events committed and the error caught.
TryBlock(w, failAt) ==
    IF ~cells[CellOf[w]].exists
    THEN [evs |-> <<>>, threw |-> TRUE, error |-> NotFound(CellOf[w])]
    ELSE IF failAt = 0
    THEN [evs |-> TrySteps(w), threw |-> FALSE, error |-> <<>>]
    ELSE [evs |-> SubSeq(TrySteps(w), 1, failAt - 1), threw |-> TRUE,
          error |-> CommitThrew]

\* a catch block that is entered on the way out of every call, as a finally
\* clause would be
CatchBlock_Always(w, try, errFail) ==
    IF ~errFail
    THEN <<executionCompleted(w, "error", try.error)>>
    ELSE <<>>

\* the catch block (lines 254-274): errFail when the failure commit throws too
CatchBlock(w, try, errFail) ==
    IF try.threw /\ ~errFail
    THEN <<executionCompleted(w, "error", try.error)>>
    ELSE <<>>

\* a processExecution whose try block has an await after its first commit,
\* during which the interval callback runs
processExecution_Yield(w, failAt, errFail) ==
    LET try == TryBlock(w, failAt)
        all == try.evs \o CatchBlock(w, try, errFail)
    IN IF Len(all) >= 2
       THEN <<all[1], kernelSessionHeartbeat>> \o SubSeq(all, 2, Len(all))
       ELSE all

\* everything one call of processExecution commits after its setTimeout
processExecution(w, failAt, errFail) ==
    LET try == TryBlock(w, failAt)
    IN try.evs \o CatchBlock(w, try, errFail)

\* how such a call ended
Outcome(w, failAt, errFail) ==
    LET try == TryBlock(w, failAt)
    IN IF ~try.threw THEN "ok" ELSE IF errFail THEN "lost" ELSE "caught"

\* number of commits that threw in such a call
Thrown(w, failAt, errFail) ==
    LET try == TryBlock(w, failAt)
    IN (IF failAt > 0 /\ cells[CellOf[w]].exists THEN 1 ELSE 0)
       + (IF try.threw /\ errFail THEN 1 ELSE 0)

(* ---------------------------- Init ------------------------------------- *)
\* The runs explored.  Each run fixes the processes that are started, the
\* items the producer publishes, the cells table, and how much of the budgets
\* of throwing commits and of interval ticks is still available.
Run(live, items, table, thrown, ticked, triggered) ==
    [live |-> live, items |-> items, table |-> table, thrown |-> thrown,
     ticked |-> ticked, triggered |-> triggered]

Runs ==
    \* one session, two items, commits may throw, no interval tick
    { Run({"s1"}, Items, t, 0, MaxHeartbeats, 0) : t \in CellTables }
    \* one session, one item, one commit may throw, interval ticks
    \cup { Run({"s1"}, {"w1"}, t, MaxFailures - 1, 0, 0) : t \in CellTables }
    \* two sessions racing for one item
    \cup { Run(Sessions, {"w1"}, CodeAndMissing, MaxFailures, MaxHeartbeats, MaxTriggers) }

InitRun(r) ==
    /\ backlog = r.items
    /\ cells = r.table
    /\ status = [w \in Items |-> "none"]
    /\ assignee = [w \in Items |-> NoSession]
    /\ active = {}
    /\ failures = r.thrown
    /\ pc = [s \in Sessions |-> IF s \in r.live THEN "starting" ELSE "absent"]
    /\ exitCode = [s \in Sessions |-> -1]
    /\ isShuttingDown = [s \in Sessions |-> FALSE]
    /\ processedExecutions = [s \in Sessions |-> {}]
    /\ heartbeatInterval = [s \in Sessions |-> FALSE]
    /\ subs = [s \in Sessions |-> [assigned |-> FALSE, pending |-> FALSE, active |-> FALSE]]
    /\ timers = [s \in Sessions |-> <<>>]
    /\ lastPending = [s \in Sessions |-> NotDelivered]
    /\ lastAssigned = [s \in Sessions |-> NotDelivered]
    /\ lastActive = [s \in Sessions |-> {NoSession}]
    /\ commits = [s \in Sessions |-> <<>>]
    /\ claimAttempts = [s \in Sessions |-> 0]
    /\ claimTried = [s \in Sessions |-> {}]
    /\ started = [s \in Sessions |-> [w \in Items |-> 0]]
    /\ outcome = [s \in Sessions |-> [w \in Items |-> "idle"]]
    /\ teardown = [s \in Sessions |-> <<>>]
    /\ triggers = [s \in Sessions |-> r.triggered]
    /\ ticks = [s \in Sessions |-> r.ticked]

Init == \E r \in Runs : InitRun(r)

(* ---------------------------- startup ---------------------------------- *)
\* lines 133-156 and, when registration succeeds, the rest of the top level
\* (lines 159-463): the subscriptions, the interval timer, the listeners.
\* thrown = 0: both commits succeed; 1: kernelSessionStarted throws;
\* 2: the first heartbeat throws.
\* a catch that logs the error and lets the top level go on
RegistrationFatal_Swallowed(thrown) == FALSE

\* the catch of lines 153-156 rethrows: the top level ends there
RegistrationFatal(thrown) == thrown # 0

Start(s, thrown) ==
    /\ pc[s] = "starting"
    /\ thrown \in 0..2
    /\ thrown # 0 => CanFail(1)
    /\ failures' = IF thrown = 0 THEN failures ELSE failures + 1
    /\ commits' = [commits EXCEPT ![s] =
                      CASE thrown = 0 -> <<kernelSessionStarted, kernelSessionHeartbeat>>
                        [] thrown = 1 -> <<>>
                        [] thrown = 2 -> <<kernelSessionStarted>>]
    /\ IF ~RegistrationFatal(thrown)
       THEN /\ pc' = [pc EXCEPT ![s] = "running"]
            /\ subs' = [subs EXCEPT ![s] = [assigned |-> TRUE, pending |-> TRUE, active |-> TRUE]]
            /\ heartbeatInterval' = [heartbeatInterval EXCEPT ![s] = TRUE]
            /\ UNCHANGED exitCode
       ELSE /\ pc' = [pc EXCEPT ![s] = "crashed"]
            /\ exitCode' = [exitCode EXCEPT ![s] = 1]
            /\ UNCHANGED <<subs, heartbeatInterval>>
    /\ UNCHANGED <<backlog, cells, status, assignee, active, isShuttingDown, processedExecutions,
                   timers, lastPending, lastAssigned, lastActive, claimAttempts,
                   claimTried, started, outcome, teardown, triggers, ticks>>

Alive(s) == pc[s] \in {"running", "closing"}

HasCommitted(s, t) == \E i \in DOMAIN commits[s] : commits[s][i].type = t

(* ---------------------------- environment ------------------------------ *)
\* an external producer publishes a work item
Enqueue(w) ==
    /\ w \in backlog
    /\ backlog' = backlog \ {w}
    /\ status' = [status EXCEPT ![w] = "pending"]
    /\ UNCHANGED <<cells, assignee, active, failures>>
    /\ UNCHANGED sessVars

\* the store materialises a committed registration: the session shows up in
\* the active-kernels view
SessionVisible(s) ==
    /\ HasCommitted(s, "kernelSessionStarted")
    /\ ~HasCommitted(s, "kernelSessionTerminated")
    /\ s \notin active
    /\ active' = active \cup {s}
    /\ UNCHANGED <<backlog, cells, status, assignee, failures>>
    /\ UNCHANGED sessVars

(* ---------------------------- subscriptions ---------------------------- *)
\* pendingWorkSubscription onUpdate (lines 349-381): the store pushes the
\* refreshed pending view; the claim is deferred with setTimeout(.., 0)
PendingUpdate(s) ==
    /\ Alive(s)
    /\ subs[s].pending
    /\ lastPending[s] # pendingWorkQuery
    /\ lastPending' = [lastPending EXCEPT ![s] = pendingWorkQuery]
    /\ timers' = [timers EXCEPT ![s] =
                     IF isShuttingDown[s] THEN @
                     ELSE Append(@, [kind |-> "claim", entries |-> pendingWorkQuery, idx |-> 0])]
    /\ UNCHANGED storeVars
    /\ UNCHANGED <<pc, exitCode, isShuttingDown, processedExecutions, heartbeatInterval,
                   subs, lastAssigned, lastActive, commits, claimAttempts, claimTried,
                   started, outcome, teardown, triggers, ticks>>

\* assignedWorkSubscription onUpdate (lines 320-344)
AssignedUpdate(s) ==
    /\ Alive(s)
    /\ subs[s].assigned
    /\ lastAssigned[s] # assignedWorkQuery(s)
    /\ lastAssigned' = [lastAssigned EXCEPT ![s] = assignedWorkQuery(s)]
    /\ timers' = [timers EXCEPT ![s] =
                     IF isShuttingDown[s] THEN @
                     ELSE Append(@, [kind |-> "exec", entries |-> assignedWorkQuery(s), idx |-> 0])]
    /\ UNCHANGED storeVars
    /\ UNCHANGED <<pc, exitCode, isShuttingDown, processedExecutions, heartbeatInterval,
                   subs, lastPending, lastActive, commits, claimAttempts, claimTried,
                   started, outcome, teardown, triggers, ticks>>

\* activeKernelsSubscription onUpdate (lines 386-389): does nothing
ActiveUpdate(s) ==
    /\ Alive(s)
    /\ subs[s].active
    /\ lastActive[s] # activeKernelsQuery
    /\ lastActive' = [lastActive EXCEPT ![s] = activeKernelsQuery]
    /\ UNCHANGED storeVars
    /\ UNCHANGED <<pc, exitCode, isShuttingDown, processedExecutions, heartbeatInterval,
                   subs, timers, lastPending, lastAssigned, commits, claimAttempts,
                   claimTried, started, outcome, teardown, triggers, ticks>>

(* ---------------------------- deferred tasks --------------------------- *)
\* a claim that does not look for its own session
OurKernel_Unchecked(s, activeKernels) == TRUE

\* activeKernels.find((k) => k.sessionId === SESSION_ID), lines 359-366
OurKernel(s, activeKernels) == s \in activeKernels

\* a claim that takes the last entry of the snapshot
FirstPending_Last(entries) == entries[Len(entries)]

\* const firstPending = entries[0], line 369
FirstPending(entries) == entries[1]

\* a claim that commits a second time when the first commit is rejected
CommitCalls_Retry(ok) == IF ok THEN 1 ELSE 2

\* the commit calls of one claim: the catch of lines 376-378 is empty
CommitCalls(ok) == 1

\* the deferred claim (lines 357-380).  throws: the commit throws for a
\* reason other than a conflict.  entries is the snapshot the callback was
\* given, so the test firstPending.status === "pending" of line 370 holds for
\* every entry; whether the row is still pending is the store's to decide.
ClaimTask(s, throws) ==
    /\ Alive(s)
    /\ timers[s] # <<>>
    /\ Head(timers[s]).kind = "claim"
    /\ timers' = [timers EXCEPT ![s] = Tail(@)]
    /\ LET entries == Head(timers[s]).entries
           ourKernel == OurKernel(s, activeKernelsQuery)
       IN IF ourKernel /\ entries # <<>>
          THEN LET firstPending == FirstPending(entries)
                   ok == AssignAccepted(firstPending) /\ ~throws
               IN /\ throws => CanFail(1)
                  /\ failures' = IF throws THEN failures + 1 ELSE failures
                  /\ claimAttempts' = [claimAttempts EXCEPT ![s] = @ + CommitCalls(ok)]
                  /\ claimTried' = [claimTried EXCEPT ![s] = @ \cup {firstPending}]
                  /\ commits' = [commits EXCEPT ![s] =
                                    IF ok THEN Append(@, executionAssigned(firstPending)) ELSE @]
                  /\ status' = IF ok THEN [status EXCEPT ![firstPending] = "assigned"] ELSE status
                  /\ assignee' = IF ok THEN [assignee EXCEPT ![firstPending] = s] ELSE assignee
          ELSE /\ ~throws
               /\ UNCHANGED <<failures, claimAttempts, claimTried, commits, status, assignee>>
    /\ UNCHANGED <<backlog, cells, active>>
    /\ UNCHANGED <<pc, exitCode, isShuttingDown, processedExecutions, heartbeatInterval,
                   subs, lastPending, lastAssigned, lastActive, started, outcome, teardown,
                   triggers, ticks>>

\* the loop without the has() check of lines 327-329
NextNew_NoLedger(s, entries, from, ledger) ==
    IF from <= Len(entries) THEN from ELSE 0

\* first index >= from of an entry that is not in the ledger, 0 when none
NextNew(s, entries, from, ledger) ==
    LET new == {i \in from..Len(entries) : entries[i] \notin ledger}
    IN IF new = {} THEN 0 ELSE CHOOSE i \in new : \A j \in new : i <= j

RECURSIVE ResumeAll(_, _, _)
\* one suspended processExecution call per new entry from index i on
ResumeAll(entries, i, ledger) ==
    IF i > Len(entries) THEN <<>>
    ELSE (IF entries[i] \in ledger THEN <<>>
          ELSE <<[kind |-> "resume", entries |-> entries, idx |-> i]>>)
         \o ResumeAll(entries, i + 1, ledger)

\* a loop that calls processExecution for every new entry without awaiting
\* the previous call
BatchLoop_NoAwait(s, entries, from, rest, out) ==
    LET new == {entries[i] : i \in {j \in from..Len(entries) :
                                       entries[j] \notin processedExecutions[s]}}
    IN /\ processedExecutions' = [processedExecutions EXCEPT ![s] = @ \cup new]
       /\ started' = [started EXCEPT ![s] =
                         [w \in Items |-> IF w \in new THEN @[w] + 1 ELSE @[w]]]
       /\ outcome' = [out EXCEPT ![s] =
                         [w \in Items |-> IF w \in new THEN "running" ELSE @[w]]]
       /\ timers' = [timers EXCEPT ![s] =
                        rest \o ResumeAll(entries, from, processedExecutions[s])]

\* a loop whose ledger only remembers the item it is working on
BatchLoop_Forget(s, entries, from, rest, out) ==
    LET i == NextNew(s, entries, from, processedExecutions[s])
    IN IF i = 0
       THEN /\ timers' = [timers EXCEPT ![s] = rest]
            /\ outcome' = out
            /\ UNCHANGED <<processedExecutions, started>>
       ELSE /\ processedExecutions' = [processedExecutions EXCEPT ![s] = {entries[i]}]
            /\ started' = [started EXCEPT ![s][entries[i]] = @ + 1]
            /\ outcome' = [out EXCEPT ![s][entries[i]] = "running"]
            /\ timers' = [timers EXCEPT ![s] =
                             Append(rest, [kind |-> "resume", entries |-> entries, idx |-> i])]

\* the for loop of lines 325-342 from entry `from` on, up to the next
\* suspension: the await of processExecution's setTimeout (line 175).
\* rest: the timer queue without the running task; out: outcome so far.
BatchLoop(s, entries, from, rest, out) ==
    LET i == NextNew(s, entries, from, processedExecutions[s])
    IN IF i = 0
       THEN /\ timers' = [timers EXCEPT ![s] = rest]
            /\ outcome' = out
            /\ UNCHANGED <<processedExecutions, started>>
       ELSE /\ processedExecutions' = [processedExecutions EXCEPT ![s] = @ \cup {entries[i]}]
            /\ started' = [started EXCEPT ![s][entries[i]] = @ + 1]
            /\ outcome' = [out EXCEPT ![s][entries[i]] = "running"]
            /\ timers' = [timers EXCEPT ![s] =
                             Append(rest, [kind |-> "resume", entries |-> entries, idx |-> i])]

\* the deferred batch task of lines 324-343, first leg
ExecTask(s) ==
    /\ Alive(s)
    /\ timers[s] # <<>>
    /\ Head(timers[s]).kind = "exec"
    /\ BatchLoop(s, Head(timers[s]).entries, 1, Tail(timers[s]), outcome)
    /\ UNCHANGED storeVars
    /\ UNCHANGED <<pc, exitCode, isShuttingDown, heartbeatInterval, subs, lastPending,
                   lastAssigned, lastActive, commits, claimAttempts, claimTried,
                   teardown, triggers, ticks>>

\* processExecution resumes after its setTimeout (lines 177-274), then the
\* batch loop goes on to the next entry
ResumeTask(s, failAt, errFail) ==
    /\ Alive(s)
    /\ timers[s] # <<>>
    /\ Head(timers[s]).kind = "resume"
    /\ LET task == Head(timers[s])
           w == task.entries[task.idx]
           evs == processExecution(w, failAt, errFail)
           n == Thrown(w, failAt, errFail)
       IN /\ failAt \in 0..Len(TrySteps(w))
          /\ (failAt > 0) => cells[CellOf[w]].exists
          /\ errFail => TryBlock(w, failAt).threw
          /\ CanFail(n)
          /\ failures' = failures + n
          /\ commits' = [commits EXCEPT ![s] = @ \o evs]
          /\ status' = [v \in Items |-> IF v \in Completes(evs) THEN "done" ELSE status[v]]
          /\ BatchLoop(s, task.entries, task.idx + 1, Tail(timers[s]),
                       [outcome EXCEPT ![s][w] = Outcome(w, failAt, errFail)])
    /\ UNCHANGED <<backlog, cells, assignee, active>>
    /\ UNCHANGED <<pc, exitCode, isShuttingDown, heartbeatInterval, subs, lastPending,
                   lastAssigned, lastActive, claimAttempts, claimTried, teardown,
                   triggers, ticks>>

(* ---------------------------- heartbeat -------------------------------- *)
\* a tick whose failed commit stops the timer
IntervalAfterTick_StopOnThrow(s, throws) == IF throws THEN FALSE ELSE heartbeatInterval[s]

\* the catch of lines 402-404 only warns: the interval stays installed
IntervalAfterTick(s, throws) == heartbeatInterval[s]

\* the interval callback of lines 393-405
Heartbeat(s, throws) ==
    /\ Alive(s)
    /\ heartbeatInterval[s]
    /\ ticks[s] < MaxHeartbeats
    /\ ticks' = [ticks EXCEPT ![s] = @ + 1]
    /\ IF isShuttingDown[s]
       THEN /\ ~throws
            /\ UNCHANGED <<commits, failures>>
       ELSE /\ throws => CanFail(1)
            /\ failures' = IF throws THEN failures + 1 ELSE failures
            /\ commits' = [commits EXCEPT ![s] =
                              IF throws THEN @ ELSE Append(@, kernelSessionHeartbeat)]
    /\ heartbeatInterval' = [heartbeatInterval EXCEPT ![s] = IntervalAfterTick(s, throws)]
    /\ UNCHANGED <<backlog, cells, status, assignee, active>>
    /\ UNCHANGED <<pc, exitCode, isShuttingDown, processedExecutions,
                   subs, timers, lastPending, lastAssigned, lastActive, claimAttempts,
                   claimTried, started, outcome, teardown, triggers>>

(* ---------------------------- shutdown --------------------------------- *)
\* shutdown without its guard
AlreadyShuttingDown_Never(s) == FALSE

\* the guard of line 409
AlreadyShuttingDown(s) == isShuttingDown[s]

\* the store closed before the termination is committed
TeardownSteps_CloseFirst(s) ==
    <<"clearInterval">>
    \o (IF subs[s].assigned THEN <<"unsubscribeAssigned">> ELSE <<>>)
    \o (IF subs[s].pending THEN <<"unsubscribePending">> ELSE <<>>)
    \o (IF subs[s].active THEN <<"unsubscribeActive">> ELSE <<>>)
    \o <<"storeShutdown", "commitTerminated">>

\* the steps of lines 415-444 in program order; only non-null handles are
\* released (lines 418-431)
TeardownSteps(s) ==
    <<"clearInterval">>
    \o (IF subs[s].assigned THEN <<"unsubscribeAssigned">> ELSE <<>>)
    \o (IF subs[s].pending THEN <<"unsubscribePending">> ELSE <<>>)
    \o (IF subs[s].active THEN <<"unsubscribeActive">> ELSE <<>>)
    \o <<"commitTerminated", "storeShutdown">>

\* shutdown up to its await (lines 408-444), invoked by a signal listener or
\* an error listener (lines 449-461).  throws: the kernelSessionTerminated
\* commit throws.
Shutdown(s, source, throws) ==
    /\ Alive(s)
    /\ source \in TriggerSources
    /\ triggers[s] < MaxTriggers
    /\ triggers' = [triggers EXCEPT ![s] = @ + 1]
    /\ IF AlreadyShuttingDown(s)
       THEN /\ ~throws
            /\ UNCHANGED <<isShuttingDown, heartbeatInterval, subs, teardown, commits,
                           failures, active, pc>>
       ELSE /\ throws => CanFail(1)
            /\ failures' = IF throws THEN failures + 1 ELSE failures
            /\ isShuttingDown' = [isShuttingDown EXCEPT ![s] = TRUE]
            /\ heartbeatInterval' = [heartbeatInterval EXCEPT ![s] = FALSE]
            /\ subs' = [subs EXCEPT ![s] = [assigned |-> FALSE, pending |-> FALSE, active |-> FALSE]]
            /\ teardown' = [teardown EXCEPT ![s] = @ \o TeardownSteps(s)]
            /\ commits' = [commits EXCEPT ![s] =
                              IF throws THEN @ ELSE Append(@, kernelSessionTerminated)]
            /\ active' = IF throws THEN active ELSE active \ {s}
            /\ pc' = [pc EXCEPT ![s] = "closing"]
    /\ UNCHANGED <<backlog, cells, status, assignee>>
    /\ UNCHANGED <<exitCode, processedExecutions, timers, lastPending, lastAssigned,
                   lastActive, claimAttempts, claimTried, started, outcome, ticks>>

\* a shutdown that resets its flag and carries on instead of exiting
ShutdownExit_Resume(s) ==
    /\ pc[s] = "closing"
    /\ pc' = [pc EXCEPT ![s] = "running"]
    /\ isShuttingDown' = [isShuttingDown EXCEPT ![s] = FALSE]
    /\ UNCHANGED storeVars
    /\ UNCHANGED <<exitCode, processedExecutions, heartbeatInterval, subs, timers,
                   lastPending, lastAssigned, lastActive, commits, claimAttempts,
                   claimTried, started, outcome, teardown, triggers, ticks>>

\* shutdown after store.shutdown() resolves: Deno.exit(0) (line 446)
ShutdownExit(s) ==
    /\ pc[s] = "closing"
    /\ pc' = [pc EXCEPT ![s] = "exited"]
    /\ exitCode' = [exitCode EXCEPT ![s] = 0]
    /\ teardown' = [teardown EXCEPT ![s] = Append(@, "exit")]
    /\ UNCHANGED storeVars
    /\ UNCHANGED <<isShuttingDown, processedExecutions, heartbeatInterval, subs, timers,
                   lastPending, lastAssigned, lastActive, commits, claimAttempts,
                   claimTried, started, outcome, triggers, ticks>>

(* ---------------------------- specification ---------------------------- *)
Next ==
    \/ \E s \in Sessions, thrown \in 0..2 : Start(s, thrown)
    \/ \E w \in Items : Enqueue(w)
    \/ \E s \in Sessions : SessionVisible(s)
    \/ \E s \in Sessions : PendingUpdate(s)
    \/ \E s \in Sessions : AssignedUpdate(s)
    \/ \E s \in Sessions : ActiveUpdate(s)
    \/ \E s \in Sessions, throws \in BOOLEAN : ClaimTask(s, throws)
    \/ \E s \in Sessions : ExecTask(s)
    \/ \E s \in Sessions, failAt \in 0..4, errFail \in BOOLEAN : ResumeTask(s, failAt, errFail)
    \/ \E s \in Sessions, throws \in BOOLEAN : Heartbeat(s, throws)
    \/ \E s \in Sessions, source \in TriggerSources, throws \in BOOLEAN : Shutdown(s, source, throws)
    \/ \E s \in Sessions : ShutdownExit(s)

Spec == Init /\ [][Next]_vars

\* The event loop runs every task that is ready: a started process finishes
\* its top level, a changed view is pushed to its subscribers, a queued timer
\* task runs, a suspended shutdown resumes.  The producer, the signals, the
\* interval and the throwing of a commit are under no obligation.
Fairness ==
    \A s \in Sessions :
        /\ WF_vars(Start(s, 0))
        /\ WF_vars(SessionVisible(s))
        /\ WF_vars(PendingUpdate(s))
        /\ WF_vars(AssignedUpdate(s))
        /\ WF_vars(ActiveUpdate(s))
        /\ WF_vars(ClaimTask(s, FALSE))
        /\ WF_vars(ExecTask(s))
        /\ WF_vars(\E failAt \in 0..4, errFail \in BOOLEAN : ResumeTask(s, failAt, errFail))
        /\ WF_vars(ShutdownExit(s))

\* the runs of one session and one item, under fairness
InitLive == \E r \in Runs : r.live = {"s1"} /\ r.items = {"w1"} /\ InitRun(r)

LiveSpec == InitLive /\ [][Next]_vars /\ Fairness

(* ======================================================================= *)
(* Properties                                                              *)
(* ======================================================================= *)
\* positions in a session's commit sequence of the events of one type for one item
EventsOf(s, t, w) ==
    {i \in DOMAIN commits[s] : commits[s][i].type = t /\ commits[s][i].item = w}

\* number of executionCompleted events committed for an item by all sessions
RECURSIVE SumOver(_, _)
SumOver(f, S) ==
    IF S = {} THEN 0
    ELSE LET x == CHOOSE y \in S : TRUE IN f[x] + SumOver(f, S \ {x})

Completions(w) ==
    SumOver([s \in Sessions |-> Cardinality(EventsOf(s, "executionCompleted", w))], Sessions)

Assignments(w) ==
    SumOver([s \in Sessions |-> Cardinality(EventsOf(s, "executionAssigned", w))], Sessions)

InTimers(s, kind, entries, idx) ==
    \E i \in DOMAIN timers[s] :
        timers[s][i] = [kind |-> kind, entries |-> entries, idx |-> idx]

\* C1: whatever assigned-view notifications a session receives, it starts
\* processExecution at most once per work item and commits at most one
\* executionStarted event per item.
C1_AtMostOneExecution ==
    \A s \in Sessions, w \in Items :
        /\ started[s][w] <= 1
        /\ Cardinality(EventsOf(s, "executionStarted", w)) <= 1

\* C1 witness: w1 was delivered in the batch <<w1>> and again in the batch
\* <<w1, w2>> before its execution committed anything; the second batch
\* skipped it and went on to w2.
C1_Witness ==
    /\ InTimers("s1", "resume", <<"w1">>, 1)
    /\ InTimers("s1", "resume", <<"w1", "w2">>, 2)
    /\ started["s1"]["w1"] = 1
    /\ EventsOf("s1", "executionStarted", "w1") = {}

\* events a session has committed that refer to an item or to its cell
RefersTo(s, w) ==
    {i \in DOMAIN commits[s] : commits[s][i].item = w \/ commits[s][i].cell = CellOf[w]}

\* C2 as claimed: every item assigned to a session gets exactly one
\* executionCompleted event, never zero and never two.  A process that has
\* exited commits nothing more, so by then the event must be there.
C2_ExactlyOneCompletion ==
    \A w \in Items :
        /\ Completions(w) <= 1
        /\ \A s \in Sessions :
              (assignee[w] = s /\ pc[s] = "exited") => Completions(w) = 1

\* C2 amended: never two executionCompleted events for an item; exactly one
\* once the processExecution call for the item has run to its end, unless the
\* commit of the failure completion threw as well.
C2_AtMostOneCompletion ==
    \A w \in Items :
        /\ Completions(w) <= 1
        /\ \A s \in Sessions :
              outcome[s][w] \in {"ok", "caught"} => Completions(w) = 1

\* C2 witness: the success completion threw and the catch block committed
\* the failure completion in its place.
C2_Witness ==
    \E s \in Sessions, w \in Items :
        /\ outcome[s][w] = "caught"
        /\ \E i \in RefersTo(s, w) : commits[s][i].type = "cellOutputAdded"
        /\ Completions(w) = 1

\* C3: with two sessions racing for a pending item the log accepts at most
\* one executionAssigned for it, the assignee is the session whose commit was
\* accepted, and every other session commits nothing that refers to the item
\* and never executes it.
C3_SingleWinner ==
    \A w \in Items :
        /\ Assignments(w) <= 1
        /\ assignee[w] # NoSession => EventsOf(assignee[w], "executionAssigned", w) # {}
        /\ \A s \in Sessions :
              s # assignee[w] =>
                  /\ RefersTo(s, w) = {}
                  /\ started[s][w] = 0
                  /\ w \notin processedExecutions[s]

\* C3 witness: both sessions attempted the claim of w1, one was rejected,
\* and the winner has executed the item.
C3_Witness ==
    /\ \A s \in Sessions : "w1" \in claimTried[s]
    /\ assignee["w1"] = "s2"
    /\ outcome["s2"]["w1"] = "ok"
    /\ pc["s1"] = "running"
    /\ timers["s1"] = <<>>

\* C4: a session attempts an executionAssigned commit only in a step in which
\* the active-kernels view it reads contains its own session.
C4_ClaimOnlyWhenActive ==
    [][\A s \in Sessions : claimAttempts'[s] # claimAttempts[s] => s \in active]_vars

\* C4 witness: the pending view <<w1>> was delivered and the deferred claim
\* has run while no session was active: w1 is still pending, nothing attempted.
C4_Witness ==
    /\ status["w1"] = "pending"
    /\ lastPending["s1"] = <<"w1">>
    /\ timers["s1"] = <<>>
    /\ pc["s1"] = "running"
    /\ active = {}
    /\ claimAttempts["s1"] = 0

\* C5: an item that is at the head of the pending view while the session is
\* running, present in the active set and not shutting down is eventually the
\* target of an executionAssigned attempt by that session (or stops being
\* pending, or the session starts shutting down).
C5_PendingNeverStalls ==
    (/\ pc["s1"] = "running"
     /\ ~isShuttingDown["s1"]
     /\ "s1" \in active
     /\ pendingWorkQuery = <<"w1">>)
    ~> (\/ "w1" \in claimTried["s1"]
        \/ isShuttingDown["s1"]
        \/ status["w1"] # "pending")

Occurrences(seq, x) == Cardinality({i \in DOMAIN seq : seq[i] = x})

FullTeardown ==
    << "clearInterval", "unsubscribeAssigned", "unsubscribePending",
       "unsubscribeActive", "commitTerminated", "storeShutdown", "exit" >>

\* C6: however often the shutdown listener is invoked, every teardown step is
\* performed at most once and at most one kernelSessionTerminated event is
\* committed.
C6_TeardownOnce ==
    \A s \in Sessions :
        /\ \A i \in DOMAIN FullTeardown : Occurrences(teardown[s], FullTeardown[i]) <= 1
        /\ isShuttingDown[s] =>
              \A i \in 1..4 : Occurrences(teardown[s], FullTeardown[i]) = 1
        /\ Cardinality(EventsOf(s, "kernelSessionTerminated", NoItem)) <= 1

\* C6 witness: the listener was invoked a second time while the first
\* invocation was suspended at the await of store.shutdown().
C6_Witness ==
    /\ triggers["s1"] = 2
    /\ pc["s1"] = "closing"
    /\ Len(teardown["s1"]) = 6

\* the execution events a session has committed for an item, in commit order
ItemEvents(s, w) ==
    LET OfItem(e) == e.type # "executionAssigned" /\ (e.item = w \/ e.cell = CellOf[w])
    IN SelectSeq(commits[s], OfItem)

\* C7: when the cell exists and no commit throws, the session commits for the
\* item exactly executionStarted, cellOutputsCleared for its cell, one
\* cellOutputAdded at position 0 whose text ends with the cell's source, and
\* executionCompleted with status success, in this order.
C7_SuccessSequence ==
    \A s \in Sessions, w \in Items :
        outcome[s][w] = "ok" =>
            LET ev == ItemEvents(s, w)
                cell == cells[CellOf[w]]
            IN /\ cell.exists
               /\ Len(ev) = 4
               /\ ev[1].type = "executionStarted" /\ ev[1].item = w
               /\ ev[2].type = "cellOutputsCleared" /\ ev[2].cell = CellOf[w]
               /\ ev[3].type = "cellOutputAdded" /\ ev[3].cell = CellOf[w]
               /\ ev[3].position = 0
               /\ ev[3].payload[Len(ev[3].payload)] =
                      (IF cell.source = NullSource THEN "" ELSE cell.source)
               /\ ev[4].type = "executionCompleted" /\ ev[4].item = w
               /\ ev[4].status = "success"

\* C7 witness: the code cell with source print(1) was executed and its
\* output echoes the source.
C7_Witness ==
    /\ cells["c1"] = CodeRow("print(1)")
    /\ outcome["s1"]["w1"] = "ok"
    /\ \E i \in DOMAIN commits["s1"] :
          commits["s1"][i] = cellOutputAdded("c1", 0, <<"print(1)">>)

IsPrefix(a, b) == Len(a) <= Len(b) /\ a = SubSeq(b, 1, Len(a))

\* C9: the teardown steps happen in the order clearInterval, the three
\* unsubscribes, the kernelSessionTerminated commit, store.shutdown, exit with
\* status 0, whether or not the termination commit throws, and every shutdown
\* that has begun reaches the exit.
C9_TeardownOrder ==
    /\ [](\A s \in Sessions :
            /\ IsPrefix(teardown[s], FullTeardown)
            /\ isShuttingDown[s] => Len(teardown[s]) >= 6
            /\ pc[s] = "exited" => (exitCode[s] = 0 /\ teardown[s] = FullTeardown))
    /\ \A s \in Sessions : isShuttingDown[s] ~> pc[s] = "exited"

\* C9 witness: the termination commit threw and the process still exited.
C9_Witness ==
    /\ pc["s1"] = "exited"
    /\ ~HasCommitted("s1", "kernelSessionTerminated")
    /\ teardown["s1"] = FullTeardown

\* C10: a process whose kernelSessionStarted commit threw has ended with a
\* non-zero exit status, holds no subscription and no interval timer, has no
\* deferred task and has committed nothing.
C10_RegistrationFatal ==
    \A s \in Sessions :
        (pc[s] \notin {"absent", "starting"} /\ ~HasCommitted(s, "kernelSessionStarted")) =>
            /\ pc[s] = "crashed"
            /\ exitCode[s] > 0
            /\ subs[s] = [assigned |-> FALSE, pending |-> FALSE, active |-> FALSE]
            /\ ~heartbeatInterval[s]
            /\ timers[s] = <<>>
            /\ lastPending[s] = NotDelivered /\ lastAssigned[s] = NotDelivered
            /\ commits[s] = <<>>
            /\ claimAttempts[s] = 0
            /\ \A w \in Items : started[s][w] = 0

\* C10 witness: registration threw while an item was pending.
C10_Witness ==
    /\ pc["s1"] = "crashed"
    /\ commits["s1"] = <<>>
    /\ status["w1"] = "pending"

\* the lifecycle state of a session: 0 not started, 1 starting, 2 active,
\* 3 shutting down, 4 terminated
Phase(s) ==
    CASE pc[s] = "absent" -> 0
      [] pc[s] = "starting" -> 1
      [] pc[s] = "running" /\ ~isShuttingDown[s] -> 2
      [] pc[s] \in {"running", "closing"} /\ isShuttingDown[s] -> 3
      [] pc[s] = "closing" /\ ~isShuttingDown[s] -> 3
      [] pc[s] \in {"exited", "crashed"} -> 4

\* C11: the lifecycle only moves forward (starting, active, shutting down,
\* terminated) and the shutdown flag, once set, is never cleared.
C11_LifecycleForward ==
    [][\A s \in Sessions :
          /\ isShuttingDown[s] => isShuttingDown'[s]
          /\ Phase(s)' >= Phase(s)]_vars

\* C11 witness: a session that went through all four states.
C11_Witness ==
    /\ pc["s1"] = "exited"
    /\ isShuttingDown["s1"]
    /\ HasCommitted("s1", "kernelSessionStarted")
    /\ triggers["s1"] = 1

\* C12: a step that attempts an executionAssigned commit runs one deferred
\* claim task, makes exactly one attempt, and the attempt is for the first
\* entry of the pending sequence that task was given (the highest priority),
\* bound to the session itself; a task given an empty sequence attempts nothing.
C12_OneAttemptForHead ==
    [][\A s \in Sessions :
          claimAttempts'[s] # claimAttempts[s] =>
              /\ timers[s] # <<>>
              /\ Head(timers[s]).kind = "claim"
              /\ timers'[s] = Tail(timers[s])
              /\ claimAttempts'[s] = claimAttempts[s] + 1
              /\ LET entries == Head(timers[s]).entries
                 IN /\ entries # <<>>
                    /\ \A i \in DOMAIN entries : Priority[entries[1]] >= Priority[entries[i]]
                    /\ claimTried'[s] = claimTried[s] \cup {entries[1]}
                    /\ \/ commits'[s] = commits[s]
                       \/ /\ commits'[s] = Append(commits[s], executionAssigned(entries[1]))
                          /\ assignee'[entries[1]] = s]_vars

\* C12 witness: the callback was given <<w1, w2>>; its task claimed w1 and
\* left w2 pending.
C12_Witness ==
    /\ lastPending["s1"] = <<"w1", "w2">>
    /\ timers["s1"] = <<>>
    /\ claimAttempts["s1"] = 1
    /\ assignee["w1"] = "s1"
    /\ status["w2"] = "pending"

AssignedEvents(s) ==
    {i \in DOMAIN commits[s] : commits[s][i].type = "executionAssigned"}

\* C13: once the shutdown flag is set, the session commits no further
\* executionAssigned event and starts no further processExecution call.
C13_NoNewWorkAfterShutdown ==
    [][\A s \in Sessions :
          isShuttingDown[s] =>
              /\ AssignedEvents(s)' = AssignedEvents(s)
              /\ started'[s] = started[s]]_vars

\* the types of the events of steps 2 to 4 of an execution, in order
StepTypes == <<"executionStarted", "cellOutputsCleared", "cellOutputAdded">>

TypesOf(evs) == [i \in DOMAIN evs |-> evs[i].type]

InProgress(s) == {w \in Items : outcome[s][w] = "running"}

Suspended(s) == {i \in DOMAIN timers[s] : timers[s][i].kind = "resume"}

\* C15 as claimed: at any time at most one item of a session is in progress
\* (in the ledger, processExecution begun and not yet ended).
C15_OneInProgress ==
    \A s \in Sessions : Cardinality(InProgress(s)) <= 1

\* C15 amended: the items of one batch are processed one after the other:
\* every item in progress is the current item of exactly one suspended batch
\* task, and no batch has two suspended calls.
C15_SequentialWithinBatch ==
    \A s \in Sessions :
        /\ \A w \in InProgress(s) :
              Cardinality({i \in Suspended(s) :
                              timers[s][i].entries[timers[s][i].idx] = w}) = 1
        /\ \A i \in Suspended(s) :
              timers[s][i].entries[timers[s][i].idx] \in InProgress(s)
        /\ \A i, j \in Suspended(s) :
              timers[s][i].entries = timers[s][j].entries => i = j

\* C15 witness: w1 of the batch <<w1>> and w2 of the batch <<w1, w2>> are in
\* progress at the same time.
C15_Witness ==
    /\ InProgress("s1") = {"w1", "w2"}
    /\ pc["s1"] = "running"
    /\ Len(timers["s1"]) = 2

\* C16: a step in which an executionAssigned commit is rejected makes that one
\* attempt and no other, leaves the ledger, the shutdown flag, the process
\* state, the subscriptions and the interval timer as they were, and changes
\* nothing in the store.
C16_RejectionAbsorbed ==
    [][\A s \in Sessions :
          (claimAttempts'[s] # claimAttempts[s] /\ commits'[s] = commits[s]) =>
              /\ claimAttempts'[s] = claimAttempts[s] + 1
              /\ processedExecutions'[s] = processedExecutions[s]
              /\ isShuttingDown'[s] = isShuttingDown[s]
              /\ pc'[s] = pc[s]
              /\ subs'[s] = subs[s]
              /\ heartbeatInterval'[s] = heartbeatInterval[s]
              /\ teardown'[s] = teardown[s]
              /\ triggers'[s] = triggers[s]
              /\ started'[s] = started[s]
              /\ status' = status /\ assignee' = assignee /\ active' = active]_vars

\* C16 witness: s1 lost the race for w1 to s2; it is still running with its
\* pending subscription in place, an empty ledger and nothing committed
\* beyond its registration.
C16_Witness ==
    /\ "w1" \in claimTried["s1"]
    /\ assignee["w1"] = "s2"
    /\ commits["s1"] = <<kernelSessionStarted, kernelSessionHeartbeat>>
    /\ pc["s1"] = "running" /\ ~isShuttingDown["s1"]
    /\ subs["s1"].pending
    /\ processedExecutions["s1"] = {}

Heartbeats(s) ==
    {i \in DOMAIN commits[s] : commits[s][i].type = "kernelSessionHeartbeat"}

\* C17: an interval tick happens only while the session is not shutting down
\* and attempts one kernelSessionHeartbeat commit with status ready; whether
\* the commit succeeds or throws, the timer stays installed and the shutdown
\* flag, the process state, the ledger, the subscriptions and the deferred
\* tasks are unchanged; once shutdown has begun no heartbeat is committed.
C17_HeartbeatTick ==
    /\ [][\A s \in Sessions :
            ticks'[s] # ticks[s] =>
                /\ ~isShuttingDown[s]
                /\ \/ /\ commits'[s] = Append(commits[s],
                             Ev("kernelSessionHeartbeat", NoItem, NoCell, "ready", 0, <<>>))
                      /\ failures' = failures
                   \/ /\ commits'[s] = commits[s]
                      /\ failures' = failures + 1
                /\ heartbeatInterval'[s]
                /\ isShuttingDown'[s] = isShuttingDown[s]
                /\ pc'[s] = pc[s]
                /\ triggers'[s] = triggers[s]
                /\ processedExecutions'[s] = processedExecutions[s]
                /\ subs'[s] = subs[s]
                /\ timers'[s] = timers[s]]_vars
    /\ [][\A s \in Sessions : isShuttingDown[s] => Heartbeats(s)' = Heartbeats(s)]_vars

\* C17 witness: of two ticks one threw and the other committed its heartbeat,
\* and the timer is still installed.
C17_Witness ==
    /\ ticks["s1"] = 2
    /\ failures = MaxFailures
    /\ commits["s1"] = <<kernelSessionStarted, kernelSessionHeartbeat, kernelSessionHeartbeat>>
    /\ heartbeatInterval["s1"]
    /\ pc["s1"] = "running"

\* C18: the ledger only grows; every item for which the session has committed
\* an execution event is in the ledger; an item whose execution failed has
\* been executed once and stays in the ledger.
C18_LedgerGrowsOnly ==
    /\ [][\A s \in Sessions : processedExecutions[s] \subseteq processedExecutions'[s]]_vars
    /\ [](\A s \in Sessions, w \in Items :
            /\ ItemEvents(s, w) # <<>> => w \in processedExecutions[s]
            /\ started[s][w] > 0 => w \in processedExecutions[s]
            /\ outcome[s][w] \in {"caught", "lost"} =>
                  (w \in processedExecutions[s] /\ started[s][w] = 1))

\* C18 witness: w1's execution failed without a completion, so w1 stayed in
\* the assigned view and was delivered again with w2; it was not executed
\* again, w2 was.
C18_Witness ==
    /\ outcome["s1"]["w1"] = "lost"
    /\ status["w1"] = "assigned"
    /\ lastAssigned["s1"] = <<"w1", "w2">>
    /\ timers["s1"] = <<>>
    /\ started["s1"]["w1"] = 1
    /\ outcome["s1"]["w2"] \in {"ok", "caught"}
    /\ processedExecutions["s1"] = {"w1", "w2"}

\* positions in a session's commit sequence of the execution events of an item
ExecutionBlock(s, w) ==
    {i \in DOMAIN commits[s] :
        /\ commits[s][i].type # "executionAssigned"
        /\ (commits[s][i].item = w \/ commits[s][i].cell = CellOf[w])}

\* C19: in a session's commit sequence the execution events of one item are
\* contiguous: no other event of the session lies between two of them.
C19_ContiguousBlock ==
    \A s \in Sessions, w \in Items :
        \A i, j \in ExecutionBlock(s, w) :
            \A k \in i..j : k \in ExecutionBlock(s, w)

\* C19 witness: an interval tick committed its heartbeat while w1's execution
\* was suspended at its setTimeout; the heartbeat precedes the whole block.
C19_Witness ==
    /\ outcome["s1"]["w1"] = "ok"
    /\ \E k \in Heartbeats("s1") :
          /\ k > 2
          /\ ExecutionBlock("s1", "w1") = (k + 1)..(k + 4)

\* C20 as claimed: no event of a session follows its kernelSessionTerminated.
C20_NothingAfterTerminated ==
    \A s \in Sessions :
        \A i \in DOMAIN commits[s] :
            commits[s][i].type = "kernelSessionTerminated" => i = Len(commits[s])

\* C20 amended: after its kernelSessionTerminated a session commits no
\* heartbeat, no executionAssigned and no second kernelSessionTerminated; only
\* the execution events of assigned-work tasks that were deferred or in flight
\* can follow it, and nothing is committed after the process has exited.
C20_OnlyWorkAfterTerminated ==
    /\ [](\A s \in Sessions :
            \A i, j \in DOMAIN commits[s] :
                (commits[s][i].type = "kernelSessionTerminated" /\ j > i) =>
                    commits[s][j].type \in
                        {"executionStarted", "cellOutputsCleared",
                         "cellOutputAdded", "executionCompleted"})
    /\ [][\A s \in Sessions : pc[s] \in {"exited", "crashed"} => commits'[s] = commits[s]]_vars

\* C20 witness: an execution that was in flight when shutdown began resumed
\* while the store was being closed and committed its events after
\* kernelSessionTerminated.
C20_Witness ==
    \E i \in DOMAIN commits["s1"] :
        /\ commits["s1"][i].type = "kernelSessionTerminated"
        /\ Len(commits["s1"]) = i + 4
        /\ commits["s1"][i + 4].type = "executionCompleted"
        /\ commits["s1"][i + 4].status = "success"

====
